---- MODULE Spec2Model ----
(***************************************************************************)
(* Model of the pipeline calculation engine (src/calculations.py) and the  *)
(* grade table it reads (src/constants.py).                                *)
(*                                                                         *)
(* Python floats are modelled as decimal floating-point numbers <<m, e>>   *)
(* standing for m * 10^e with a six-digit mantissa (10^5 <= |m| < 10^6, or *)
(* <<0, 0>> for zero), with +inf, -inf and NaN as special values, and with *)
(* a raised exception as a value that every operation propagates.  The     *)
(* arithmetic rounds like a float does (with less precision), so equality  *)
(* of two results is equality of what was computed, not of the real        *)
(* numbers behind them.                                                    *)
(***************************************************************************)
EXTENDS Integers, Sequences, FiniteSets, TLC

(***************************************************************************)
(* Decimal floating point                                                  *)
(***************************************************************************)
MantLo == 10^5
MantHi == 10^6
SpecialExp == 10^4
ExcExp == 2 * 10^4
\* largest / smallest decimal exponent of a finite float (IEEE double: 1.8e308, 4.9e-324)
ExpMax == 308 - 5
ExpMin == 0 - 324 - 5

Zero == <<0, 0>>
PosInf == <<1, SpecialExp>>
NegInf == <<0 - 1, SpecialExp>>
NaN == <<0, SpecialExp>>
ZeroDivisionError == <<1, ExcExp>>
ValueError == <<2, ExcExp>>
OverflowError == <<3, ExcExp>>
KeyError == <<4, ExcExp>>

IsExc(x) == x[2] = ExcExp
IsNaN(x) == x = NaN
IsInf(x) == x = PosInf \/ x = NegInf
IsFin(x) == x[2] < SpecialExp

ExcName(x) ==
  CASE x = ZeroDivisionError -> "ZeroDivisionError"
    [] x = ValueError -> "ValueError"
    [] x = OverflowError -> "OverflowError"
    [] x = KeyError -> "KeyError"
    [] OTHER -> "none"

IAbs(n) == IF n < 0 THEN 0 - n ELSE n
ISgn(n) == IF n < 0 THEN 0 - 1 ELSE IF n = 0 THEN 0 ELSE 1

\* sign of a float: -1, 0, 1 (NaN and exceptions: 0)
Sgn(x) == IF IsFin(x) \/ IsInf(x) THEN ISgn(x[1]) ELSE 0

\* Python evaluates an argument once, before the call.  In the operators
\* below (CHOOSE v \in {e : x \in {x0}} : TRUE) is e with x standing for the
\* value of the argument x0, evaluated once.

\* the number of decimal digits of m, 1 <= m < 2^31
Digits(m) ==
  IF m < 100000
  THEN (IF m < 10 THEN 1 ELSE IF m < 100 THEN 2 ELSE IF m < 1000 THEN 3
        ELSE IF m < 10000 THEN 4 ELSE 5)
  ELSE (IF m < 1000000 THEN 6 ELSE IF m < 10000000 THEN 7 ELSE IF m < 100000000 THEN 8
        ELSE IF m < 1000000000 THEN 9 ELSE 10)

\* m * 10^e, m >= 1, with a mantissa of six digits, the digits beyond dropped
NormAbs(m, e) ==
  IF Digits(m) > 6
  THEN <<m \div 10^(Digits(m) - 6), e + (Digits(m) - 6)>>
  ELSE <<m * 10^(6 - Digits(m)), e - (6 - Digits(m))>>

\* the float nearest below m * 10^e; overflow gives an infinity, underflow zero
Num(m0, e) ==
  (CHOOSE v \in { (IF m = 0 THEN Zero
          ELSE LET n == NormAbs(IAbs(m), e)
               IN IF n[2] > ExpMax THEN <<ISgn(m), SpecialExp>>
                  ELSE IF n[2] < ExpMin THEN Zero
                  ELSE <<ISgn(m) * n[1], n[2]>>)
         : m \in {m0} } : TRUE)

Neg(x0) == (CHOOSE v \in { (IF IsExc(x) \/ IsNaN(x) THEN x ELSE <<0 - x[1], x[2]>>) : x \in {x0} } : TRUE)
Abs(x0) == (CHOOSE v \in { (IF Sgn(x) < 0 THEN Neg(x) ELSE x) : x \in {x0} } : TRUE)

\* a * b / 10^5 for mantissas a, b, without leaving 32 bits
MulMant(a, b) ==
  LET a1 == a \div 1000
      a0 == a % 1000
      b1 == b \div 1000
      b0 == b % 1000
  IN a1 * b1 * 10 + ((a1 * b0 + a0 * b1) * 1000 + a0 * b0 + 50000) \div 100000

\* a * 10^6 / b for mantissas a, b, by long division in three steps
DivMant(a, b) ==
  LET q1 == a \div b
      r1 == a % b
      q2 == (r1 * 1000) \div b
      r2 == (r1 * 1000) % b
      q3 == (r2 * 1000) \div b
  IN q1 * 1000000 + q2 * 1000 + q3

Mul(x0, y0) ==
  (CHOOSE v \in { (IF IsExc(x) THEN x
          ELSE IF IsExc(y) THEN y
          ELSE IF IsNaN(x) \/ IsNaN(y) THEN NaN
          ELSE IF IsInf(x) \/ IsInf(y)
               THEN IF Sgn(x) * Sgn(y) = 0 THEN NaN ELSE <<Sgn(x) * Sgn(y), SpecialExp>>
          ELSE IF x = Zero \/ y = Zero THEN Zero
          ELSE Num(Sgn(x) * Sgn(y) * MulMant(IAbs(x[1]), IAbs(y[1])), x[2] + y[2] + 5))
         : x \in {x0}, y \in {y0} } : TRUE)

\* Python's float division: a zero divisor raises ZeroDivisionError
Div(x0, y0) ==
  (CHOOSE v \in { (IF IsExc(x) THEN x
          ELSE IF IsExc(y) THEN y
          ELSE IF y = Zero THEN ZeroDivisionError
          ELSE IF IsNaN(x) \/ IsNaN(y) THEN NaN
          ELSE IF IsInf(x) THEN IF IsInf(y) THEN NaN ELSE <<Sgn(x) * Sgn(y), SpecialExp>>
          ELSE IF IsInf(y) \/ x = Zero THEN Zero
          ELSE Num(Sgn(x) * Sgn(y) * DivMant(IAbs(x[1]), IAbs(y[1])), x[2] - y[2] - 6))
         : x \in {x0}, y \in {y0} } : TRUE)

\* sum of two finite non-zero floats, the first with the larger exponent
AddAligned(x, y) ==
  LET d == x[2] - y[2]
  IN IF d >= 9 THEN x
     ELSE IF d <= 3 THEN Num(x[1] * 10^d + y[1], y[2])
     ELSE Num(x[1] * 1000 + ISgn(y[1]) * (IAbs(y[1]) \div 10^(d - 3)), x[2] - 3)

Add(x0, y0) ==
  (CHOOSE v \in { (IF IsExc(x) THEN x
          ELSE IF IsExc(y) THEN y
          ELSE IF IsNaN(x) \/ IsNaN(y) THEN NaN
          ELSE IF IsInf(x) THEN IF IsInf(y) /\ x # y THEN NaN ELSE x
          ELSE IF IsInf(y) THEN y
          ELSE IF x = Zero THEN y
          ELSE IF y = Zero THEN x
          ELSE IF x[2] >= y[2] THEN AddAligned(x, y) ELSE AddAligned(y, x))
         : x \in {x0}, y \in {y0} } : TRUE)

Sub(x, y) == Add(x, Neg(y))

\* comparisons; every comparison with NaN is false
Lt(x0, y0) ==
  (CHOOSE v \in { (~IsNaN(x) /\ ~IsNaN(y) /\ x # y /\
          (x = NegInf \/ y = PosInf \/ (IsFin(x) /\ IsFin(y) /\ Sgn(Sub(x, y)) < 0)))
         : x \in {x0}, y \in {y0} } : TRUE)
Le(x0, y0) ==
  (CHOOSE v \in { (~IsNaN(x) /\ ~IsNaN(y) /\ (x = y \/ Lt(x, y))) : x \in {x0}, y \in {y0} } : TRUE)
Gt(x, y) == Lt(y, x)
\* Python's max(a, b): b if b > a, else a
Max(a0, b0) == (CHOOSE v \in { (IF Gt(b, a) THEN b ELSE a) : a \in {a0}, b \in {b0} } : TRUE)

RECURSIVE ISqrtIter(_, _)
ISqrtIter(n, g0) ==
  (CHOOSE v \in { (IF (g + n \div g) \div 2 >= g THEN g ELSE ISqrtIter(n, (g + n \div g) \div 2))
         : g \in {g0} } : TRUE)

\* math.sqrt: ValueError below zero
Sqrt(x0) ==
  (CHOOSE v \in { (IF IsExc(x) \/ IsNaN(x) THEN x
          ELSE IF Sgn(x) < 0 THEN ValueError
          ELSE IF x = PosInf \/ x = Zero THEN x
          ELSE LET odd == x[2] % 2 # 0
                   m == IF odd THEN x[1] * 1000 ELSE x[1] * 100
                   e == IF odd THEN x[2] - 3 ELSE x[2] - 2
               IN \* one Newton step in float arithmetic for the low digits
                  (CHOOSE v \in { Mul(Add(s, Div(x, s)), <<500000, 0 - 6>>)
                         : s \in {Num(ISqrtIter(m, 31623), e \div 2)} } : TRUE))
         : x \in {x0} } : TRUE)

\* z * z
Sq(z0) == (CHOOSE v \in { Mul(z, z) : z \in {z0} } : TRUE)

\* (y^10) for a float y in [1, 10), one product after the other
Pow10th(y) == Sq(Mul(Sq(Sq(y)), y))

\* the mantissa of a float, as a float in [1, 10)
Mant(p) == <<p[1], 0 - 5>>

\* decimal digits of log10(y), y in [1, 10), as an integer, given the 10th
\* power p of y and the digits acc found before: each digit is the decimal
\* exponent of the 10th power of what the digit before left
RECURSIVE LogDigits(_, _, _)
LogDigits(p0, digits, acc) ==
  (CHOOSE v \in { (IF IsExc(p) THEN 0
          ELSE IF digits = 1 THEN acc * 10 + p[2] + 5
          ELSE LogDigits(Pow10th(Mant(p)), digits - 1, acc * 10 + p[2] + 5))
         : p \in {p0} } : TRUE)

\* math.log10: ValueError at and below zero
Log10(x0) ==
  (CHOOSE v \in { (IF IsExc(x) \/ IsNaN(x) THEN x
          ELSE IF Sgn(x) <= 0 THEN ValueError
          ELSE IF x = PosInf THEN PosInf
          ELSE (CHOOSE v \in { Add(Num(x[2] + 5, 0), Num(d, 0 - 6))
                      : d \in {LogDigits(Pow10th(Mant(x)), 6, 0)} } : TRUE))
         : x \in {x0} } : TRUE)

\* 10^(10^-k) for k = 1..6
ExpRoot(k) ==
  CASE k = 1 -> <<125893, 0 - 5>>
    [] k = 2 -> <<102329, 0 - 5>>
    [] k = 3 -> <<100231, 0 - 5>>
    [] k = 4 -> <<100023, 0 - 5>>
    [] k = 5 -> <<100002, 0 - 5>>
    [] OTHER -> <<100000, 0 - 5>>

RECURSIVE MulTimes(_, _, _)
MulTimes(acc0, c, d) ==
  (CHOOSE v \in { (IF d = 0 \/ IsExc(acc) THEN acc ELSE MulTimes(Mul(acc, c), c, d - 1))
         : acc \in {acc0} } : TRUE)

\* 10^(frac / 10^6) for 0 <= frac < 10^6, digit by digit
RECURSIVE ExpDigits(_, _, _)
ExpDigits(acc0, frac, k) ==
  (CHOOSE v \in { (IF k > 5 \/ IsExc(acc) THEN acc
          ELSE ExpDigits(MulTimes(acc, ExpRoot(k), (frac \div 10^(6 - k)) % 10), frac, k + 1))
         : acc \in {acc0} } : TRUE)

\* 10^t for a finite float t
Exp10(t0) ==
  (CHOOSE v \in { (IF t = Zero THEN <<MantLo, 0 - 5>>
          ELSE IF t[2] > 0 - 3 THEN (IF Sgn(t) > 0 THEN PosInf ELSE Zero)
          ELSE IF t[2] < 0 - 12 THEN <<MantLo, 0 - 5>>
          ELSE LET sh == t[2] + 6
                   mag == IF sh >= 0 THEN IAbs(t[1]) * 10^sh ELSE IAbs(t[1]) \div 10^(0 - sh)
                   fix == Sgn(t) * mag
                   n == fix \div MantHi
                   frac == fix % MantHi
               IN (CHOOSE v \in { Num(r[1], r[2] + n) : r \in {ExpDigits(<<MantLo, 0 - 5>>, frac, 1)} } : TRUE))
         : t \in {t0} } : TRUE)

\* Python's x ** y for a float x >= 0 and a finite non-integer y:
\* 0 ** negative raises ZeroDivisionError, overflow raises OverflowError
Pow(x0, y0) ==
  (CHOOSE v \in { (IF IsExc(x) \/ IsNaN(x) THEN x
          ELSE IF x = Zero THEN (IF Sgn(y) < 0 THEN ZeroDivisionError ELSE Zero)
          ELSE IF x = PosInf THEN (IF Sgn(y) < 0 THEN Zero ELSE PosInf)
          ELSE IF Sgn(x) < 0 THEN ValueError
          ELSE (CHOOSE v \in { (IF IsExc(t) THEN t
                       ELSE (CHOOSE v \in { (IF r = PosInf THEN OverflowError ELSE r)
                                   : r \in {Exp10(t)} } : TRUE))
                      : t \in {Mul(y, Log10(x))} } : TRUE))
         : x \in {x0}, y \in {y0} } : TRUE)

\* Python's x ** 2
Square(x0) ==
  (CHOOSE v \in { (CHOOSE v \in { (IF IsFin(x) /\ IsInf(r) THEN OverflowError ELSE r) : r \in {Mul(x, x)} } : TRUE)
         : x \in {x0} } : TRUE)


(***************************************************************************)
(* Constants of src/constants.py and literals of src/calculations.py       *)
(***************************************************************************)
G_ACCELERATION == Num(981, 0 - 2)
Pi == Num(314159, 0 - 5)
SMYS_X42 == 290
SMYS_X52 == 359
SMYS_X60 == 414
SMYS_X65 == 448
PIPE_GRADES ==
  [g \in {"X42", "X52", "X60", "X65"} |->
     [SMYS |-> Num(CASE g = "X42" -> SMYS_X42 [] g = "X52" -> SMYS_X52
                     [] g = "X60" -> SMYS_X60 [] OTHER -> SMYS_X65, 0)]]

LaminarLimit == 2300
TransitionalLimit == 4000
MaxIterations == 5
SmoothLimit == Num(1, 0 - 5)
Tolerance == Num(1, 0 - 6)
\* a design margin of 1.25 in place of 1.5
DesignMarginLow == Num(125, 0 - 2)
DesignMargin == Num(15, 0 - 1)
DesignFactor == Num(72, 0 - 2)
VelocityLimit == Num(4, 0)

\* the names "from constants import *" binds in calculations.py: one object
\* each, shared by every call
VARIABLE module_globals

\* a local that has not been assigned
None == <<0, 3 * SpecialExp>>

(***************************************************************************)
(* Section 1: FlowCalculations                                             *)
(***************************************************************************)
calculate_reynolds_number(velocity, diameter, viscosity) ==
  IF viscosity = Zero THEN PosInf
  ELSE Div(Mul(velocity, diameter), viscosity)

calculate_flow_velocity(flow_rate_m3_s, internal_diameter_m) ==
  IF Le(internal_diameter_m, Zero) THEN Zero
  ELSE LET area == Mul(Pi, Square(Div(internal_diameter_m, Num(2, 0))))
       IN Div(flow_rate_m3_s, area)

flow_regime_classification(reynolds_number) ==
  IF Lt(reynolds_number, Num(LaminarLimit, 0)) THEN "Laminar (smooth, organized)"
  ELSE IF Lt(reynolds_number, Num(TransitionalLimit, 0)) THEN "Transitional (unstable)"
  ELSE "Turbulent (chaotic, faster mixing)"

(***************************************************************************)
(* Section 2: FrictionFactorCalculations (the pure pieces; the selection   *)
(* and the iteration are actions below)                                    *)
(***************************************************************************)
\* the laminar formula without its guard for Re <= 0
LaminarUnguarded(reynolds_number) == Div(Num(64, 0), reynolds_number)

calculate_friction_factor_laminar(reynolds_number) ==
  IF Le(reynolds_number, Zero) THEN Zero
  ELSE Div(Num(64, 0), reynolds_number)

\* lines 191, 196, 203: the second element of the tuple returned
RegimeInvalid == "Invalid diameter"
RegimeLaminar == "Laminar"
\* the laminar label pasted into the turbulent branch
RegimeTurbulentPasted == "Laminar"
RegimeTurbulent == "Turbulent"

\* the diameter check with < for <=
InvalidDiameterStrict(diameter) == Lt(diameter, Zero)

\* line 190: if diameter <= 0
InvalidDiameter(diameter) == Le(diameter, Zero)

\* the regime split at the upper end of the transitional band
LaminarRegimeAt4000(reynolds_number) == Lt(reynolds_number, Num(TransitionalLimit, 0))

\* line 193: if reynolds_number < 2300
LaminarRegime(reynolds_number) == Lt(reynolds_number, Num(LaminarLimit, 0))

\* the smooth-pipe test taken only for a roughness below zero
SmoothPipeNever(relative_roughness) == Lt(relative_roughness, Zero)

\* line 149: if relative_roughness < 0.00001
SmoothPipe(relative_roughness) == Lt(relative_roughness, SmoothLimit)

\* line 150: 0.316 * (reynolds_number ** -0.25)
Blasius(reynolds_number) ==
  Mul(Num(316, 0 - 3), Pow(reynolds_number, Num(0 - 25, 0 - 2)))

\* line 154: the Swamee-Jain initial guess
SwameeJain(reynolds_number, relative_roughness) ==
  Div(Num(25, 0 - 2),
      Square(Log10(Add(Div(relative_roughness, Num(37, 0 - 1)),
                       Div(Num(574, 0 - 2), Pow(reynolds_number, Num(9, 0 - 1)))))))

\* line 158
Term1(relative_roughness) ==
  Mul(Num(2, 0), Log10(Div(relative_roughness, Num(37, 0 - 1))))

\* line 159
Term2Denom(reynolds_number, f_guess) ==
  Mul(reynolds_number, Sqrt(f_guess))

\* the guard that never stops the loop
ZeroDenominatorNever(term2_denom) == FALSE

\* line 161: if term2_denom == 0
ZeroDenominator(term2_denom) == term2_denom = Zero

\* line 164
Term2(term2_denom) ==
  Mul(Num(2, 0), Log10(Div(Num(251, 0 - 2), term2_denom)))

\* line 166: f_new = 1.0 / ((term1 + term2) ** 2)
FNew(term1, term2) ==
  Div(Num(1, 0), Square(Add(term1, term2)))

\* line 131, the equation the docstring gives, solved for the f on its left:
\* 1/sqrt(f) = -2 * log10(eps/3.7D + 2.51/(Re * sqrt(f)))
ColebrookWhite(reynolds_number, relative_roughness, f) ==
  Div(Num(1, 0),
      Square(Mul(Num(0 - 2, 0),
                 Log10(Add(Div(relative_roughness, Num(37, 0 - 1)),
                           Div(Num(251, 0 - 2), Mul(reynolds_number, Sqrt(f))))))))

\* line 169: abs(f_new - f_guess) < 1e-6
Converged(f_new, f_guess) == Lt(Abs(Sub(f_new, f_guess)), Tolerance)

(***************************************************************************)
(* Section 3: PressureDropCalculations                                     *)
(***************************************************************************)
\* Darcy-Weisbach with D/L for L/D
FrictionPressureDropInverted(friction_factor, length_m, diameter_m, velocity_ms, density_kg_m3) ==
  IF Le(diameter_m, Zero) \/ Le(density_kg_m3, Zero) THEN Zero
  ELSE Mul(Mul(friction_factor, Div(diameter_m, length_m)),
           Div(Mul(density_kg_m3, Square(velocity_ms)), Num(2, 0)))

calculate_friction_pressure_drop(friction_factor, length_m, diameter_m, velocity_ms, density_kg_m3) ==
  IF Le(diameter_m, Zero) \/ Le(density_kg_m3, Zero) THEN Zero
  ELSE Mul(Mul(friction_factor, Div(length_m, diameter_m)),
           Div(Mul(density_kg_m3, Square(velocity_ms)), Num(2, 0)))

calculate_elevation_pressure_drop(elevation_gain_m, density_kg_m3) ==
  Mul(Mul(density_kg_m3, module_globals.G_ACCELERATION), elevation_gain_m)

\* <<total_dp, minor_losses>>
calculate_total_pressure_drop(friction_dp_pa, elevation_dp_pa) ==
  LET minor_losses == Mul(Abs(friction_dp_pa), Num(1, 0 - 1))
  IN <<Add(Add(friction_dp_pa, elevation_dp_pa), minor_losses), minor_losses>>

convert_pressure_drop_to_bar_per_km(pressure_drop_pa, length_km) ==
  IF Le(length_km, Zero) THEN Zero
  ELSE Mul(Div(Div(pressure_drop_pa, Num(1, 5)), length_km), Num(100, 0))

(***************************************************************************)
(* Section 4: PipeSizingCalculations                                       *)
(***************************************************************************)
calculate_internal_diameter(outside_diameter_mm, wall_thickness_mm) ==
  Sub(outside_diameter_mm, Mul(Num(2, 0), wall_thickness_mm))

\* the hoop stress with 0 for the sentinel
CalculateHoopStressZeroSentinel(internal_pressure_mpa, outside_diameter_mm, wall_thickness_mm) ==
  IF Le(wall_thickness_mm, Zero) THEN Zero
  ELSE Div(Mul(internal_pressure_mpa, outside_diameter_mm),
           Mul(Num(2, 0), wall_thickness_mm))

calculate_hoop_stress(internal_pressure_mpa, outside_diameter_mm, wall_thickness_mm) ==
  IF Le(wall_thickness_mm, Zero) THEN PosInf
  ELSE Div(Mul(internal_pressure_mpa, outside_diameter_mm),
           Mul(Num(2, 0), wall_thickness_mm))

\* the containment check with < for <=
CheckPressureContainmentStrict(hoop_stress_mpa, smys_mpa, design_factor) ==
  LET allowable_stress == Mul(design_factor, smys_mpa)
      margin == IF Gt(allowable_stress, Zero)
                THEN Mul(Div(Sub(allowable_stress, hoop_stress_mpa), allowable_stress),
                         Num(100, 0))
                ELSE Zero
      safe == Lt(hoop_stress_mpa, allowable_stress)
  IN [safe |-> safe,
      margin_percent |-> Max(Zero, margin),
      hoop_stress |-> hoop_stress_mpa,
      allowable_stress |-> allowable_stress,
      message |-> IF safe THEN "SAFE" ELSE "UNSAFE"]

\* the dict returned (the divisor is positive where it divides, so nothing is
\* raised); the message is kept as its verdict word, without the formatted numbers
check_pressure_containment(hoop_stress_mpa, smys_mpa, design_factor) ==
  LET allowable_stress == Mul(design_factor, smys_mpa)
      margin == IF Gt(allowable_stress, Zero)
                THEN Mul(Div(Sub(allowable_stress, hoop_stress_mpa), allowable_stress),
                         Num(100, 0))
                ELSE Zero
      safe == Le(hoop_stress_mpa, allowable_stress)
  IN [safe |-> safe,
      margin_percent |-> Max(Zero, margin),
      hoop_stress |-> hoop_stress_mpa,
      allowable_stress |-> allowable_stress,
      message |-> IF safe THEN "SAFE" ELSE "UNSAFE"]


(***************************************************************************)
(* Inputs the calls are made with                                          *)
(***************************************************************************)
\* direct calls of calculate_friction_factor try Reynolds numbers up to 10^MaxReExp
MaxReExp == 6

FlowRates == {Zero, Num(5, 0 - 2), Num(5, 0 - 1)}
OutsideDiameters == {Num(3239, 0 - 1)}
WallThicknesses == {Num(64, 0 - 1), Zero, Num(0 - 1, 0), Num(16195, 0 - 2)}
Lengths == {Zero, Num(30, 0), Num(50, 0)}
Elevations == {<<Zero, Num(100, 0)>>}
OperatingPressures == {Num(0 - 10, 0), Zero, Num(20, 0), Num(70, 0)}
Densities == {Zero, Num(900, 0)}
Viscosities == {Zero, Num(1, 0 - 3), Num(1, 0 - 6)}
Roughnesses == {Zero, Num(45, 0 - 6)}
Grades == {"X42", "X52", "X60", "X65", "X99"}

ReynoldsNumbers ==
  {Num(0 - 1, 0), Zero, Num(100, 0), Num(2299, 0), Num(2300, 0), Num(3000, 0),
   Num(4000, 0), PosInf} \cup {Num(1, k) : k \in 5..MaxReExp}
DirectRoughnesses ==
  {Zero, Num(9, 0 - 6), Num(1, 0 - 5), Num(14465, 0 - 8), Num(5, 0 - 2), PosInf}
DirectDiameters == {Num(0 - 1, 0), Zero, Num(1, 0)}

\* the solver called on its own: Reynolds numbers 0, 1e-320, 1e5
SolverReynoldsNumbers == {Zero, Num(1, 0 - 320), Num(1, 5)}
SolverRoughnesses == {Num(1, 0 - 6), Num(1, 0 - 3), PosInf}

\* calculate_friction_pressure_drop called on its own
FrictionFactors == {Zero, Num(2, 0 - 2)}
LengthsM == {Zero, Num(30000, 0), Num(50000, 0)}
DiametersM == {Zero, Num(3111, 0 - 4)}
Velocities == {Zero, Num(657, 0 - 3), Num(0 - 2, 0)}

HoopStresses == {Num(0 - 10, 0), Zero, Num(100, 0), Num(25848, 0 - 2), Num(300, 0), PosInf}
SmysValues == {Zero, Num(SMYS_X52, 0)}
DesignFactors == {Zero, DesignFactor}

Sections ==
  {"input", "pipe_dimensions", "flow_properties", "friction", "pressure_drop",
   "outlet_pressure", "pressure_containment", "velocity_check"}

(***************************************************************************)
(* State                                                                   *)
(***************************************************************************)
VARIABLES
  pc,       \* where the running call stands; "idle" between calls
  entry,    \* the function the caller called
  args,     \* its arguments
  loc,      \* locals of analyze_pipeline
  ff,       \* frame of calculate_friction_factor and of the turbulent solver
  results,  \* the dict analyze_pipeline is building
  ret,      \* what the call returned or raised
  other     \* the caller's other invocation: its frame, suspended or finished

vars == <<pc, entry, args, loc, ff, results, ret, other, module_globals>>

NoArgs == [none |-> TRUE]
NoResults == [none |-> TRUE]
NoRet == [kind |-> "none"]
NoLoc ==
  [id_mm |-> None, id_m |-> None, velocity_ms |-> None, re |-> None,
   f |-> None, regime |-> "", dp_total |-> None, pressure_check |-> [none |-> TRUE]]
NoFrame ==
  [reynolds_number |-> None, absolute_roughness |-> None, diameter |-> None,
   relative_roughness |-> None, f_guess |-> None, f_new |-> None,
   n |-> 0, stop |-> "", hist |-> <<>>, trace |-> {}, f |-> None, regime |-> ""]

\* the frame of a caller that has called nothing
NoOther ==
  [pc |-> "idle", entry |-> "", args |-> NoArgs, loc |-> NoLoc, ff |-> NoFrame,
   results |-> NoResults, ret |-> NoRet]

\* the frame of the invocation that is running
CurrentFrame ==
  [pc |-> pc, entry |-> entry, args |-> args, loc |-> loc, ff |-> ff,
   results |-> results, ret |-> ret]

Init ==
  /\ other = NoOther
  /\ module_globals = [PIPE_GRADES |-> PIPE_GRADES, G_ACCELERATION |-> G_ACCELERATION]
  /\ pc = "idle"
  /\ entry = ""
  /\ args = NoArgs
  /\ loc = NoLoc
  /\ ff = NoFrame
  /\ results = NoResults
  /\ ret = NoRet

\* an exception leaves the call: nothing is returned
Raise(exc) ==
  /\ pc' = "done"
  /\ ret' = [kind |-> "exception", val |-> ExcName(exc)]

\* the first exception among the values of a sequence, None if there is none
RECURSIVE FirstExc(_)
FirstExc(vs) ==
  IF vs = <<>> THEN None
  ELSE IF IsExc(Head(vs)) THEN Head(vs)
  ELSE FirstExc(Tail(vs))

(***************************************************************************)
(* calculate_friction_factor and the turbulent solver                      *)
(***************************************************************************)
EnterFrictionFactor(reynolds_number, absolute_roughness, diameter) ==
  [NoFrame EXCEPT !.reynolds_number = reynolds_number,
                  !.absolute_roughness = absolute_roughness,
                  !.diameter = diameter]

\* lines 190-199: the diameter check, the regime selection, the laminar value
\* or the relative roughness handed to the turbulent solver
calculate_friction_factor ==
  /\ pc = "calculate_friction_factor"
  /\ IF InvalidDiameter(ff.diameter)
     THEN /\ ff' = [ff EXCEPT !.f = Zero, !.regime = RegimeInvalid]
          /\ pc' = "ff_return"
          /\ UNCHANGED ret
     ELSE IF LaminarRegime(ff.reynolds_number)
     THEN /\ ff' = [ff EXCEPT !.f = calculate_friction_factor_laminar(ff.reynolds_number),
                              !.regime = RegimeLaminar,
                              !.trace = @ \cup {"laminar"}]
          /\ pc' = "ff_return"
          /\ UNCHANGED ret
     ELSE LET relative_roughness == Div(ff.absolute_roughness, ff.diameter)
          IN IF IsExc(relative_roughness)
             THEN Raise(relative_roughness) /\ UNCHANGED ff
             ELSE /\ ff' = [ff EXCEPT !.relative_roughness = relative_roughness,
                                      !.trace = @ \cup {"relative_roughness"}]
                  /\ pc' = "colebrook"
                  /\ UNCHANGED ret
  /\ UNCHANGED <<entry, args, loc, results>>
  /\ UNCHANGED <<other, module_globals>>

SolverEntry == "calculate_friction_factor_turbulent_colebrook"

\* the solver's return statement: to calculate_friction_factor (line 200), or
\* to the caller who called the solver itself
SolverReturn(f) ==
  IF entry = SolverEntry
  THEN pc' = "done" /\ ret' = [kind |-> "value", val |-> f]
  ELSE pc' = "ff_return" /\ UNCHANGED ret

\* lines 148-154: the smooth-pipe shortcut, or the Swamee-Jain seed
calculate_friction_factor_turbulent_colebrook ==
  /\ pc = "colebrook"
  /\ IF SmoothPipe(ff.relative_roughness)
     THEN LET f == Blasius(ff.reynolds_number)
          IN IF IsExc(f)
             THEN Raise(f) /\ ff' = [ff EXCEPT !.trace = @ \cup {"colebrook", "blasius"}]
             ELSE /\ ff' = [ff EXCEPT !.f = f, !.regime = RegimeTurbulent,
                                      !.trace = @ \cup {"colebrook", "blasius"}]
                  /\ SolverReturn(f)
     ELSE LET f_guess == SwameeJain(ff.reynolds_number, ff.relative_roughness)
          IN IF IsExc(f_guess)
             THEN Raise(f_guess) /\ ff' = [ff EXCEPT !.trace = @ \cup {"colebrook", "seed"}]
             ELSE /\ ff' = [ff EXCEPT !.f_guess = f_guess, !.hist = <<f_guess>>,
                                      !.trace = @ \cup {"colebrook", "seed"}]
                  /\ pc' = "loop"
                  /\ UNCHANGED ret
  /\ UNCHANGED <<entry, args, loc, results>>
  /\ UNCHANGED <<other, module_globals>>

\* lines 157-172: one pass of the for loop
ColebrookIterate ==
  /\ pc = "loop"
  /\ ff.n < MaxIterations
  /\ LET term1 == Term1(ff.relative_roughness)
         term2_denom == Term2Denom(ff.reynolds_number, ff.f_guess)
         term2 == Term2(term2_denom)
         f_new == FNew(term1, term2)
         started == [ff EXCEPT !.n = @ + 1, !.trace = @ \cup {"iterate"}]
     IN IF FirstExc(<<term1, term2_denom>>) # None
        THEN Raise(FirstExc(<<term1, term2_denom>>)) /\ ff' = started
        ELSE IF ZeroDenominator(term2_denom)
        THEN /\ ff' = [started EXCEPT !.stop = "zero_denominator"]
             /\ pc' = "loop_exit"
             /\ UNCHANGED ret
        ELSE IF FirstExc(<<term2, f_new>>) # None
        THEN Raise(FirstExc(<<term2, f_new>>)) /\ ff' = started
        ELSE IF Converged(f_new, ff.f_guess)
        THEN /\ ff' = [started EXCEPT !.stop = "converged", !.f_new = f_new,
                                      !.hist = Append(@, f_new)]
             /\ pc' = "loop_exit"
             /\ UNCHANGED ret
        ELSE /\ ff' = [started EXCEPT !.f_guess = f_new, !.f_new = f_new,
                                      !.hist = Append(@, f_new)]
             /\ pc' = "loop"
             /\ UNCHANGED ret
  /\ UNCHANGED <<entry, args, loc, results>>
  /\ UNCHANGED <<other, module_globals>>

\* line 174 (after a break or after the range is used up) and lines 203-205
ColebrookReturn ==
  /\ \/ pc = "loop_exit"
     \/ pc = "loop" /\ ff.n >= MaxIterations
  /\ ff' = [ff EXCEPT !.f = ff.f_guess, !.regime = RegimeTurbulent,
                      !.stop = IF pc = "loop" THEN "exhausted" ELSE @]
  /\ SolverReturn(ff.f_guess)
  /\ UNCHANGED <<entry, args, loc, results>>
  /\ UNCHANGED <<other, module_globals>>

\* the tuple (f, regime) reaches the caller
FrictionFactorReturn ==
  /\ pc = "ff_return"
  /\ IF entry = "analyze_pipeline"
     THEN /\ loc' = [loc EXCEPT !.f = ff.f, !.regime = ff.regime]
          /\ pc' = "step4_store"
          /\ UNCHANGED ret
     ELSE /\ ret' = [kind |-> "value", val |-> <<ff.f, ff.regime>>]
          /\ pc' = "done"
          /\ UNCHANGED loc
  /\ UNCHANGED <<entry, args, ff, results>>
  /\ UNCHANGED <<other, module_globals>>

Call_calculate_friction_factor ==
  /\ pc = "idle"
  /\ \E reynolds_number \in ReynoldsNumbers, absolute_roughness \in DirectRoughnesses,
        diameter \in DirectDiameters :
       /\ args' = [reynolds_number |-> reynolds_number,
                   absolute_roughness |-> absolute_roughness, diameter |-> diameter]
       /\ ff' = EnterFrictionFactor(reynolds_number, absolute_roughness, diameter)
  /\ entry' = "calculate_friction_factor"
  /\ pc' = "calculate_friction_factor"
  /\ UNCHANGED <<loc, results, ret>>
  /\ UNCHANGED <<other, module_globals>>

\* the turbulent solver called on its own
Call_calculate_friction_factor_turbulent_colebrook ==
  /\ pc = "idle"
  /\ \E reynolds_number \in SolverReynoldsNumbers,
        relative_roughness \in SolverRoughnesses :
       /\ args' = [reynolds_number |-> reynolds_number,
                   relative_roughness |-> relative_roughness]
       /\ ff' = [NoFrame EXCEPT !.reynolds_number = reynolds_number,
                                !.relative_roughness = relative_roughness]
  /\ entry' = SolverEntry
  /\ pc' = "colebrook"
  /\ UNCHANGED <<loc, results, ret>>
  /\ UNCHANGED <<other, module_globals>>

(***************************************************************************)
(* check_pressure_containment called on its own                            *)
(***************************************************************************)
Call_check_pressure_containment ==
  /\ pc = "idle"
  /\ \E hoop_stress_mpa \in HoopStresses, smys_mpa \in SmysValues,
        design_factor \in DesignFactors :
       /\ args' = [hoop_stress_mpa |-> hoop_stress_mpa, smys_mpa |-> smys_mpa,
                   design_factor |-> design_factor]
       /\ ret' = [kind |-> "value",
                  val |-> check_pressure_containment(hoop_stress_mpa, smys_mpa, design_factor)]
  /\ entry' = "check_pressure_containment"
  /\ pc' = "done"
  /\ UNCHANGED <<loc, ff, results>>
  /\ UNCHANGED <<other, module_globals>>


(***************************************************************************)
(* Section 5: PipelineAnalysis.analyze_pipeline, one action per step       *)
(***************************************************************************)
\* lines 478-490: the call and step 1
Call_analyze_pipeline ==
  /\ pc = "idle"
  /\ \E flow_rate_m3_s \in FlowRates, pipe_od_mm \in OutsideDiameters,
        wall_thickness_mm \in WallThicknesses, pipe_length_km \in Lengths,
        elevation \in Elevations, operating_pressure_bar \in OperatingPressures,
        fluid_density_kg_m3 \in Densities, fluid_viscosity_pa_s \in Viscosities,
        pipe_roughness_m \in Roughnesses, pipe_grade \in Grades :
       /\ args' = [flow_rate_m3_s |-> flow_rate_m3_s, pipe_od_mm |-> pipe_od_mm,
                   wall_thickness_mm |-> wall_thickness_mm,
                   pipe_length_km |-> pipe_length_km,
                   elevation_start_m |-> elevation[1], elevation_end_m |-> elevation[2],
                   operating_pressure_bar |-> operating_pressure_bar,
                   fluid_density_kg_m3 |-> fluid_density_kg_m3,
                   fluid_viscosity_pa_s |-> fluid_viscosity_pa_s,
                   pipe_roughness_m |-> pipe_roughness_m, pipe_grade |-> pipe_grade]
       /\ results' = "input" :>
                       [flow_rate_m3_s |-> flow_rate_m3_s, pipe_od_mm |-> pipe_od_mm,
                        wall_thickness_mm |-> wall_thickness_mm,
                        pipe_length_km |-> pipe_length_km,
                        elevation_start |-> elevation[1], elevation_end |-> elevation[2],
                        operating_pressure_bar |-> operating_pressure_bar,
                        pipe_grade |-> pipe_grade]
  /\ entry' = "analyze_pipeline"
  /\ pc' = "step2"
  /\ UNCHANGED <<loc, ff, ret>>
  /\ UNCHANGED <<other, module_globals>>

\* lines 492-501
Step2_PipeDimensions ==
  /\ pc = "step2"
  /\ LET id_mm == calculate_internal_diameter(args.pipe_od_mm, args.wall_thickness_mm)
         id_m == Div(id_mm, Num(1000, 0))
     IN /\ loc' = [loc EXCEPT !.id_mm = id_mm, !.id_m = id_m]
        /\ results' = results @@ ("pipe_dimensions" :>
                        [outside_diameter_mm |-> args.pipe_od_mm,
                         wall_thickness_mm |-> args.wall_thickness_mm,
                         internal_diameter_mm |-> id_mm,
                         internal_diameter_m |-> id_m])
  /\ pc' = "step3"
  /\ UNCHANGED <<entry, args, ff, ret>>
  /\ UNCHANGED <<other, module_globals>>

\* lines 503-514
Step3_FlowVelocity ==
  /\ pc = "step3"
  /\ LET velocity_ms == calculate_flow_velocity(args.flow_rate_m3_s, loc.id_m)
         re == calculate_reynolds_number(velocity_ms, loc.id_m, args.fluid_viscosity_pa_s)
     IN IF FirstExc(<<velocity_ms, re>>) # None
        THEN Raise(FirstExc(<<velocity_ms, re>>)) /\ UNCHANGED <<loc, results>>
        ELSE /\ loc' = [loc EXCEPT !.velocity_ms = velocity_ms, !.re = re]
             /\ results' = results @@ ("flow_properties" :>
                             [velocity_ms |-> velocity_ms,
                              reynolds_number |-> re,
                              flow_regime |-> flow_regime_classification(re),
                              fluid_density |-> args.fluid_density_kg_m3,
                              fluid_viscosity |-> args.fluid_viscosity_pa_s])
             /\ pc' = "step4"
             /\ UNCHANGED ret
  /\ UNCHANGED <<entry, args, ff>>
  /\ UNCHANGED <<other, module_globals>>

\* step 4 handing the length in metres over as the diameter
Step4_FrictionFactorOfLength ==
  /\ pc = "step4"
  /\ ff' = EnterFrictionFactor(loc.re, args.pipe_roughness_m,
                               Mul(args.pipe_length_km, Num(1000, 0)))
  /\ pc' = "calculate_friction_factor"
  /\ UNCHANGED <<entry, args, loc, results, ret>>
  /\ UNCHANGED <<other, module_globals>>

\* lines 517-519: the call of calculate_friction_factor
Step4_FrictionFactor ==
  /\ pc = "step4"
  /\ ff' = EnterFrictionFactor(loc.re, args.pipe_roughness_m, loc.id_m)
  /\ pc' = "calculate_friction_factor"
  /\ UNCHANGED <<entry, args, loc, results, ret>>
  /\ UNCHANGED <<other, module_globals>>

\* lines 521-525
Step4_Store ==
  /\ pc = "step4_store"
  /\ results' = results @@ ("friction" :>
                  [friction_factor |-> loc.f,
                   calculation_method |-> loc.regime,
                   pipe_roughness_m |-> args.pipe_roughness_m])
  /\ pc' = "step5"
  /\ UNCHANGED <<entry, args, loc, ff, ret>>
  /\ UNCHANGED <<other, module_globals>>

\* lines 527-557
Step5_PressureDrop ==
  /\ pc = "step5"
  /\ LET length_m == Mul(args.pipe_length_km, Num(1000, 0))
         dp_friction == calculate_friction_pressure_drop(
                          loc.f, length_m, loc.id_m, loc.velocity_ms, args.fluid_density_kg_m3)
         elevation_change == Sub(args.elevation_end_m, args.elevation_start_m)
         dp_elevation == calculate_elevation_pressure_drop(
                           elevation_change, args.fluid_density_kg_m3)
         total == calculate_total_pressure_drop(dp_friction, dp_elevation)
         dp_total == total[1]
         dp_minor == total[2]
         dp_bar_per_100km == convert_pressure_drop_to_bar_per_km(
                               dp_friction, args.pipe_length_km)
         bar == Num(1, 5)
     IN IF FirstExc(<<dp_friction, dp_elevation, dp_total, dp_bar_per_100km>>) # None
        THEN /\ Raise(FirstExc(<<dp_friction, dp_elevation, dp_total, dp_bar_per_100km>>))
             /\ UNCHANGED <<loc, results>>
        ELSE /\ loc' = [loc EXCEPT !.dp_total = dp_total]
             /\ results' = results @@ ("pressure_drop" :>
                             [friction_loss_pa |-> dp_friction,
                              friction_loss_bar |-> Div(dp_friction, bar),
                              elevation_change_pa |-> dp_elevation,
                              elevation_change_bar |-> Div(dp_elevation, bar),
                              minor_losses_pa |-> dp_minor,
                              minor_losses_bar |-> Div(dp_minor, bar),
                              total_pressure_drop_pa |-> dp_total,
                              total_pressure_drop_bar |-> Div(dp_total, bar),
                              bar_per_100km |-> dp_bar_per_100km])
             /\ pc' = "step6"
             /\ UNCHANGED ret
  /\ UNCHANGED <<entry, args, ff>>
  /\ UNCHANGED <<other, module_globals>>

\* step 6 reporting the outlet pressure as computed, below 0 too
Step6_OutletPressureUnclamped ==
  /\ pc = "step6"
  /\ LET inlet_pressure_pa == Mul(args.operating_pressure_bar, Num(1, 5))
         outlet_pressure_pa == Sub(inlet_pressure_pa, loc.dp_total)
         outlet_pressure_bar == Div(outlet_pressure_pa, Num(1, 5))
     IN results' = results @@ ("outlet_pressure" :>
                     [inlet_pressure_bar |-> args.operating_pressure_bar,
                      outlet_pressure_bar |-> outlet_pressure_bar,
                      pressure_loss_percent |->
                        IF Gt(inlet_pressure_pa, Zero)
                        THEN Mul(Div(loc.dp_total, inlet_pressure_pa), Num(100, 0))
                        ELSE Zero])
  /\ pc' = "step7"
  /\ UNCHANGED <<entry, args, loc, ff, ret>>
  /\ UNCHANGED <<other, module_globals>>

\* lines 559-568
Step6_OutletPressure ==
  /\ pc = "step6"
  /\ LET inlet_pressure_pa == Mul(args.operating_pressure_bar, Num(1, 5))
         outlet_pressure_pa == Sub(inlet_pressure_pa, loc.dp_total)
         outlet_pressure_bar == Div(outlet_pressure_pa, Num(1, 5))
     IN results' = results @@ ("outlet_pressure" :>
                     [inlet_pressure_bar |-> args.operating_pressure_bar,
                      outlet_pressure_bar |-> Max(Zero, outlet_pressure_bar),
                      pressure_loss_percent |->
                        IF Gt(inlet_pressure_pa, Zero)
                        THEN Mul(Div(loc.dp_total, inlet_pressure_pa), Num(100, 0))
                        ELSE Zero])
  /\ pc' = "step7"
  /\ UNCHANGED <<entry, args, loc, ff, ret>>
  /\ UNCHANGED <<other, module_globals>>

\* step 7 writing the allowable stress back into the shared grade table
Step7_PressureContainmentDerating ==
  /\ pc = "step7"
  /\ LET design_pressure_bar == Mul(args.operating_pressure_bar, DesignMargin)
         design_pressure_mpa == Div(design_pressure_bar, Num(10, 0))
     IN IF args.pipe_grade \notin DOMAIN module_globals.PIPE_GRADES
        THEN Raise(KeyError) /\ UNCHANGED <<loc, results, module_globals>>
        ELSE LET smys_mpa == module_globals.PIPE_GRADES[args.pipe_grade].SMYS
                 hoop_stress == calculate_hoop_stress(
                                  design_pressure_mpa, args.pipe_od_mm, args.wall_thickness_mm)
                 pressure_check == check_pressure_containment(
                                     hoop_stress, smys_mpa, DesignFactor)
             IN IF IsExc(hoop_stress)
                THEN Raise(hoop_stress) /\ UNCHANGED <<loc, results, module_globals>>
                ELSE /\ loc' = [loc EXCEPT !.pressure_check = pressure_check]
                     /\ results' = results @@ ("pressure_containment" :>
                                     [design_pressure_bar |-> design_pressure_bar,
                                      design_pressure_mpa |-> design_pressure_mpa,
                                      hoop_stress_mpa |-> hoop_stress,
                                      allowable_stress_mpa |-> Mul(DesignFactor, smys_mpa),
                                      safe |-> pressure_check.safe,
                                      safety_margin_percent |-> pressure_check.margin_percent,
                                      compliance_message |-> pressure_check.message])
                     /\ pc' = "step8"
                     /\ UNCHANGED ret
                     /\ module_globals' =
                          [module_globals EXCEPT !.PIPE_GRADES[args.pipe_grade].SMYS =
                             Mul(DesignFactor, smys_mpa)]
  /\ UNCHANGED <<entry, args, ff, other>>

\* lines 570-591
Step7_PressureContainment ==
  /\ pc = "step7"
  /\ LET design_pressure_bar == Mul(args.operating_pressure_bar, DesignMargin)
         design_pressure_mpa == Div(design_pressure_bar, Num(10, 0))
     IN IF args.pipe_grade \notin DOMAIN module_globals.PIPE_GRADES
        THEN Raise(KeyError) /\ UNCHANGED <<loc, results>>
        ELSE LET smys_mpa == module_globals.PIPE_GRADES[args.pipe_grade].SMYS
                 hoop_stress == calculate_hoop_stress(
                                  design_pressure_mpa, args.pipe_od_mm, args.wall_thickness_mm)
                 pressure_check == check_pressure_containment(
                                     hoop_stress, smys_mpa, DesignFactor)
             IN IF IsExc(hoop_stress)
                THEN Raise(hoop_stress) /\ UNCHANGED <<loc, results>>
                ELSE /\ loc' = [loc EXCEPT !.pressure_check = pressure_check]
                     /\ results' = results @@ ("pressure_containment" :>
                                     [design_pressure_bar |-> design_pressure_bar,
                                      design_pressure_mpa |-> design_pressure_mpa,
                                      hoop_stress_mpa |-> hoop_stress,
                                      allowable_stress_mpa |-> Mul(DesignFactor, smys_mpa),
                                      safe |-> pressure_check.safe,
                                      safety_margin_percent |-> pressure_check.margin_percent,
                                      compliance_message |-> pressure_check.message])
                     /\ pc' = "step8"
                     /\ UNCHANGED ret
  /\ UNCHANGED <<entry, args, ff>>
  /\ UNCHANGED <<other, module_globals>>

\* lines 593-605: the velocity check and the return of the report
Step8_VelocityCheck ==
  /\ pc = "step8"
  /\ LET velocity_check ==
           [velocity_ms |-> loc.velocity_ms,
            velocity_limit_typical_ms |-> VelocityLimit,
            within_limit |-> Le(loc.velocity_ms, VelocityLimit)]
         with_warning ==
           IF Gt(loc.velocity_ms, VelocityLimit)
           THEN velocity_check @@ ("warning" :> "High velocity")
           ELSE velocity_check
         report == results @@ ("velocity_check" :> with_warning)
     IN /\ results' = report
        /\ ret' = [kind |-> "value", val |-> report]
  /\ pc' = "done"
  /\ UNCHANGED <<entry, args, loc, ff>>
  /\ UNCHANGED <<other, module_globals>>

\* the caller takes the result; the next call starts from nothing
Return ==
  /\ pc = "done"
  /\ pc' = "idle"
  /\ entry' = ""
  /\ args' = NoArgs
  /\ loc' = NoLoc
  /\ ff' = NoFrame
  /\ results' = NoResults
  /\ ret' = NoRet
  /\ UNCHANGED <<other, module_globals>>

Next ==
  \/ Call_analyze_pipeline
  \/ Step2_PipeDimensions
  \/ Step3_FlowVelocity
  \/ Step4_FrictionFactor
  \/ calculate_friction_factor
  \/ calculate_friction_factor_turbulent_colebrook
  \/ ColebrookIterate
  \/ ColebrookReturn
  \/ FrictionFactorReturn
  \/ Step4_Store
  \/ Step5_PressureDrop
  \/ Step6_OutletPressure
  \/ Step7_PressureContainment
  \/ Step8_VelocityCheck
  \/ Call_calculate_friction_factor
  \/ Call_calculate_friction_factor_turbulent_colebrook
  \/ Call_check_pressure_containment
  \/ Return

Spec == Init /\ [][Next]_vars

(***************************************************************************)
(* Two calls that differ in the length only                                *)
(***************************************************************************)
\* the call of the example, lines 618-630: 30 km
MainExample ==
  [flow_rate_m3_s |-> Num(5, 0 - 2), pipe_od_mm |-> Num(3239, 0 - 1),
   wall_thickness_mm |-> Num(64, 0 - 1), pipe_length_km |-> Num(30, 0),
   elevation_start_m |-> Zero, elevation_end_m |-> Num(100, 0),
   operating_pressure_bar |-> Num(20, 0), fluid_density_kg_m3 |-> Num(900, 0),
   fluid_viscosity_pa_s |-> Num(1, 0 - 3), pipe_roughness_m |-> Num(45, 0 - 6),
   pipe_grade |-> "X52"]

\* the call of case_02_longer_line.py, lines 4-16: 50 km
case_02 == [MainExample EXCEPT !.pipe_length_km = Num(50, 0)]

\* lines 481-490: the section of the report that echoes the arguments
InputSection(a) ==
  [flow_rate_m3_s |-> a.flow_rate_m3_s, pipe_od_mm |-> a.pipe_od_mm,
   wall_thickness_mm |-> a.wall_thickness_mm, pipe_length_km |-> a.pipe_length_km,
   elevation_start |-> a.elevation_start_m, elevation_end |-> a.elevation_end_m,
   operating_pressure_bar |-> a.operating_pressure_bar, pipe_grade |-> a.pipe_grade]

\* lines 453-490: analyze_pipeline entered with the arguments a, in a new frame
StartAnalyzePipeline(a) ==
  /\ args' = a
  /\ results' = "input" :> InputSection(a)
  /\ entry' = "analyze_pipeline"
  /\ pc' = "step2"
  /\ loc' = NoLoc
  /\ ff' = NoFrame
  /\ ret' = NoRet

\* lines 223-248: calculate_friction_pressure_drop called with the arguments a
FrictionPressureDropCall(a) ==
  LET r == calculate_friction_pressure_drop(a.friction_factor, a.length_m, a.diameter_m,
                                            a.velocity_ms, a.density_kg_m3)
  IN /\ args' = a
     /\ ret' = IF IsExc(r) THEN [kind |-> "exception", val |-> ExcName(r)]
               ELSE [kind |-> "value", val |-> r]
     /\ entry' = "calculate_friction_pressure_drop"
     /\ pc' = "done"
     /\ loc' = NoLoc
     /\ ff' = NoFrame
     /\ results' = NoResults

\* the example with other flows, walls, lengths, inlet pressures, densities,
\* viscosities and roughnesses
SegmentArguments ==
  { [MainExample EXCEPT !.flow_rate_m3_s = flow_rate_m3_s,
                        !.wall_thickness_mm = wall_thickness_mm,
                        !.pipe_length_km = pipe_length_km,
                        !.operating_pressure_bar = operating_pressure_bar,
                        !.fluid_density_kg_m3 = fluid_density_kg_m3,
                        !.fluid_viscosity_pa_s = fluid_viscosity_pa_s,
                        !.pipe_roughness_m = pipe_roughness_m] :
      flow_rate_m3_s \in FlowRates,
      wall_thickness_mm \in {Num(64, 0 - 1), Zero},
      pipe_length_km \in Lengths,
      operating_pressure_bar \in {Num(20, 0), Num(70, 0)},
      fluid_density_kg_m3 \in Densities,
      fluid_viscosity_pa_s \in {Num(1, 0 - 3), Num(1, 0 - 6)},
      pipe_roughness_m \in Roughnesses }

Call_analyze_pipeline_segment ==
  /\ pc = "idle"
  /\ \E a \in SegmentArguments : StartAnalyzePipeline(a)
  /\ UNCHANGED <<other, module_globals>>

Call_calculate_friction_pressure_drop ==
  /\ pc = "idle"
  /\ \E friction_factor \in FrictionFactors, length_m \in LengthsM,
        diameter_m \in DiametersM, velocity_ms \in Velocities,
        density_kg_m3 \in Densities :
       FrictionPressureDropCall(
         [friction_factor |-> friction_factor, length_m |-> length_m,
          diameter_m |-> diameter_m, velocity_ms |-> velocity_ms,
          density_kg_m3 |-> density_kg_m3])
  /\ UNCHANGED <<other, module_globals>>

\* the caller keeps what the call gave and calls again, with another length
\* and every other argument as before
CallAgainWithLength ==
  /\ pc = "done"
  /\ other = NoOther
  /\ other' = CurrentFrame
  /\ \/ /\ entry = "analyze_pipeline"
        /\ \E pipe_length_km \in Lengths :
             StartAnalyzePipeline([args EXCEPT !.pipe_length_km = pipe_length_km])
     \/ /\ entry = "calculate_friction_pressure_drop"
        /\ \E length_m \in LengthsM :
             FrictionPressureDropCall([args EXCEPT !.length_m = length_m])
  /\ UNCHANGED module_globals

\* the caller is done with both results
ReturnAndForget ==
  /\ pc = "done"
  /\ other # NoOther
  /\ pc' = "idle"
  /\ entry' = ""
  /\ args' = NoArgs
  /\ loc' = NoLoc
  /\ ff' = NoFrame
  /\ results' = NoResults
  /\ ret' = NoRet
  /\ other' = NoOther
  /\ UNCHANGED module_globals

NextLengths ==
  \/ Call_analyze_pipeline_segment
  \/ Step2_PipeDimensions
  \/ Step3_FlowVelocity
  \/ Step4_FrictionFactor
  \/ calculate_friction_factor
  \/ calculate_friction_factor_turbulent_colebrook
  \/ ColebrookIterate
  \/ ColebrookReturn
  \/ FrictionFactorReturn
  \/ Step4_Store
  \/ Step5_PressureDrop
  \/ Step6_OutletPressure
  \/ Step7_PressureContainment
  \/ Step8_VelocityCheck
  \/ Call_calculate_friction_pressure_drop
  \/ CallAgainWithLength
  \/ ReturnAndForget

SpecLengths == Init /\ [][NextLengths]_vars

(***************************************************************************)
(* Two callers whose invocations interleave                                *)
(***************************************************************************)
\* the two examples, the same two with a fluid thin enough for the turbulent
\* solver, and one with a grade the table does not have
ConcurrentArguments ==
  {MainExample, case_02,
   [MainExample EXCEPT !.fluid_viscosity_pa_s = Num(1, 0 - 6)],
   [case_02 EXCEPT !.fluid_viscosity_pa_s = Num(1, 0 - 6)],
   [MainExample EXCEPT !.pipe_grade = "X99"]}

Call_analyze_pipeline_case ==
  /\ pc = "idle"
  /\ \E a \in ConcurrentArguments : StartAnalyzePipeline(a)
  /\ UNCHANGED <<other, module_globals>>

\* the scheduler suspends the running invocation and resumes the other
\* caller: each has its own frame, the imported names are the same objects
Switch ==
  /\ pc' = other.pc
  /\ entry' = other.entry
  /\ args' = other.args
  /\ loc' = other.loc
  /\ ff' = other.ff
  /\ results' = other.results
  /\ ret' = other.ret
  /\ other' = CurrentFrame
  /\ UNCHANGED module_globals

NextConcurrent ==
  \/ Call_analyze_pipeline_case
  \/ Step2_PipeDimensions
  \/ Step3_FlowVelocity
  \/ Step4_FrictionFactor
  \/ calculate_friction_factor
  \/ calculate_friction_factor_turbulent_colebrook
  \/ ColebrookIterate
  \/ ColebrookReturn
  \/ FrictionFactorReturn
  \/ Step4_Store
  \/ Step5_PressureDrop
  \/ Step6_OutletPressure
  \/ Step7_PressureContainment
  \/ Step8_VelocityCheck
  \/ Switch
  \/ Return

SpecConcurrent == Init /\ [][NextConcurrent]_vars


(***************************************************************************)
(* Properties                                                              *)
(***************************************************************************)
AnalyzeDone == pc = "done" /\ entry = "analyze_pipeline"
ReportReturned == AnalyzeDone /\ ret.kind = "value"
KnownGrade == args.pipe_grade \in DOMAIN PIPE_GRADES
\* calculate_friction_factor has a value to return
FrictionReturned == pc = "ff_return"
\* calculate_friction_factor was called and is past its selection
FrictionSelected == ff.diameter # None /\ pc # "calculate_friction_factor"
ValidDiameter == ~Le(ff.diameter, Zero)
IsLaminar == Lt(ff.reynolds_number, Num(2300, 0))

\* C1: a call of analyze_pipeline with a grade of PIPE_GRADES raises nothing
\* and returns a report with all eight sections, whatever the numbers are.
C1_CompleteReportOrNothing ==
  (AnalyzeDone /\ KnownGrade) =>
     (ret.kind = "value" /\ DOMAIN ret.val = Sections)

\* C2: a call of analyze_pipeline with a grade that is not in PIPE_GRADES
\* fails with a lookup error (KeyError) and returns no report.
C2_UnknownGradeIsLookupError ==
  (AnalyzeDone /\ ~KnownGrade) =>
     ret = [kind |-> "exception", val |-> "KeyError"]

\* the hoop stress formula of the claim, at design pressure = operating x 1.5 / 10
ClaimedHoop ==
  Div(Mul(Div(Mul(args.operating_pressure_bar, Num(15, 0 - 1)), Num(10, 0)),
          args.pipe_od_mm),
      Mul(Num(2, 0), args.wall_thickness_mm))
ClaimedAllowable == Mul(Num(72, 0 - 2), PIPE_GRADES[args.pipe_grade].SMYS)

\* C3 as stated: in every report, safe is true exactly when
\* (design_pressure_mpa x od) / (2 x wall) <= 0.72 x SMYS (a wall of 0, where the
\* quotient does not exist, is left out), and allowable_stress_mpa is the
\* allowable stress the verdict was judged against.
C3_SafeIffFormula_AsStated ==
  ReportReturned =>
     /\ IsExc(ClaimedHoop) \/
          (ret.val.pressure_containment.safe <=> Le(ClaimedHoop, ClaimedAllowable))
     /\ ret.val.pressure_containment.allowable_stress_mpa = loc.pressure_check.allowable_stress

\* C3 amended: for a wall thickness > 0, safe is true exactly when the hoop
\* stress at 1.5 x operating pressure is <= 0.72 x SMYS; for a wall thickness
\* <= 0 the hoop stress is +infinity and safe is false; allowable_stress_mpa
\* is the allowable stress the verdict was judged against, 0.72 x SMYS.
C3_SafeIffFormula ==
  ReportReturned =>
     LET c == ret.val.pressure_containment
     IN /\ Gt(args.wall_thickness_mm, Zero) =>
             /\ c.hoop_stress_mpa = ClaimedHoop
             /\ c.safe <=> Le(ClaimedHoop, ClaimedAllowable)
        /\ Le(args.wall_thickness_mm, Zero) =>
             /\ c.hoop_stress_mpa = PosInf
             /\ ~c.safe
        /\ c.allowable_stress_mpa = ClaimedAllowable
        /\ c.allowable_stress_mpa = loc.pressure_check.allowable_stress

\* a report with a positive wall that fails containment at 1.5 x 70 bar
C3_Witness ==
  /\ ReportReturned
  /\ Gt(args.wall_thickness_mm, Zero)
  /\ args.operating_pressure_bar = Num(70, 0)
  /\ ~ret.val.pressure_containment.safe

ContainmentDone == pc = "done" /\ entry = "check_pressure_containment"
GivenAllowable == Mul(args.design_factor, args.smys_mpa)

\* C4 as stated: for every hoop stress, SMYS and design factor,
\* check_pressure_containment gives safe = True with margin_percent = 0
\* exactly when the hoop stress equals the allowable stress.
C4_BoundaryIff_AsStated ==
  ContainmentDone =>
     ((ret.val.safe /\ ret.val.margin_percent = Zero) <=>
        args.hoop_stress_mpa = GivenAllowable)

\* C4 amended: for a finite allowable stress > 0, safe = True with
\* margin_percent = 0 exactly when the hoop stress equals the allowable stress;
\* for an allowable stress <= 0 margin_percent is 0 whatever the hoop stress
\* is and safe holds for every hoop stress <= the allowable stress.
C4_BoundaryIff ==
  /\ ContainmentDone =>
       /\ (IsFin(GivenAllowable) /\ Gt(GivenAllowable, Zero)) =>
            ((ret.val.safe /\ ret.val.margin_percent = Zero) <=>
               args.hoop_stress_mpa = GivenAllowable)
       /\ Le(GivenAllowable, Zero) =>
            /\ ret.val.margin_percent = Zero
            /\ ret.val.safe <=> Le(args.hoop_stress_mpa, GivenAllowable)
  /\ ReportReturned =>
       LET c == ret.val.pressure_containment
       IN (c.safe /\ c.safety_margin_percent = Zero) <=>
            c.hoop_stress_mpa = c.allowable_stress_mpa

\* the hoop stress sits on a positive allowable stress: safe with no margin
C4_Witness ==
  /\ ContainmentDone
  /\ Gt(GivenAllowable, Zero)
  /\ args.hoop_stress_mpa = GivenAllowable
  /\ ret.val.safe
  /\ ret.val.margin_percent = Zero

\* C5 as stated: the friction factor returned is 0 when the diameter is <= 0
\* and strictly positive in every other case.
C5_PositiveUnlessBadDiameter_AsStated ==
  FrictionReturned =>
     IF Le(ff.diameter, Zero) THEN ff.f = Zero ELSE Gt(ff.f, Zero)

\* C5 amended: when the diameter is <= 0 or the relative roughness
\* (roughness / diameter) is finite, the friction factor returned is 0 exactly
\* when the diameter is <= 0, or the Reynolds number is <= 0 (the laminar
\* sentinel), or the Reynolds number is +infinity on the smooth-pipe path
\* (relative roughness < 1e-5); in every other case it is strictly positive.
\* The report's friction section holds the value returned.
C5_PositiveUnlessSentinel ==
  /\ (FrictionReturned /\
        (Le(ff.diameter, Zero) \/ IsFin(Div(ff.absolute_roughness, ff.diameter)))) =>
       IF \/ Le(ff.diameter, Zero)
          \/ Le(ff.reynolds_number, Zero)
          \/ /\ ff.reynolds_number = PosInf
             /\ Lt(Div(ff.absolute_roughness, ff.diameter), Num(1, 0 - 5))
       THEN ff.f = Zero
       ELSE Gt(ff.f, Zero)
  /\ ReportReturned => ret.val.friction.friction_factor = ff.f

\* a valid diameter with a Reynolds number <= 0 returns the sentinel 0
C5_Witness ==
  /\ FrictionReturned
  /\ ValidDiameter
  /\ Le(ff.reynolds_number, Zero)
  /\ ff.f = Zero

\* C6 as stated: the method is one of Laminar, Turbulent-Blasius,
\* Turbulent-Colebrook and tells the three computation paths apart.
C6_MethodNamesPath_AsStated ==
  FrictionReturned =>
     /\ ff.regime \in {"Laminar", "Turbulent-Blasius", "Turbulent-Colebrook"}
     /\ ff.regime = "Laminar" <=> "laminar" \in ff.trace
     /\ ff.regime = "Turbulent-Blasius" <=> "blasius" \in ff.trace
     /\ ff.regime = "Turbulent-Colebrook" <=> "seed" \in ff.trace

\* C6 amended: the method is one of Laminar, Turbulent, Invalid diameter:
\* Invalid diameter exactly when the diameter is <= 0; otherwise Laminar
\* exactly when Re < 2300 and Turbulent in every remaining case, for the
\* Blasius closed form and for the Colebrook iteration alike; the report's
\* calculation_method is that method.
C6_MethodNamesRegime ==
  /\ FrictionReturned =>
       /\ ff.regime \in {"Laminar", "Turbulent", "Invalid diameter"}
       /\ ff.regime = "Invalid diameter" <=> Le(ff.diameter, Zero)
       /\ ff.regime = "Laminar" <=> (ValidDiameter /\ IsLaminar)
       /\ ff.regime = "Turbulent" <=> (ValidDiameter /\ ~IsLaminar)
       /\ ff.regime = "Invalid diameter" <=> ff.trace = {}
       /\ ff.regime = "Laminar" <=> "laminar" \in ff.trace
       /\ ff.regime = "Turbulent" <=> ("blasius" \in ff.trace \/ "seed" \in ff.trace)
  /\ ReportReturned => ret.val.friction.calculation_method = ff.regime

\* the Colebrook iteration ran and the method says Turbulent, as for Blasius
C6_Witness ==
  /\ FrictionReturned
  /\ "iterate" \in ff.trace
  /\ ff.regime = "Turbulent"

\* C7: with a diameter > 0, every Re < 2300 takes the laminar path (64/Re for
\* Re > 0, the sentinel 0 for Re <= 0) and never enters the turbulent solver;
\* every Re >= 2300, the transitional band included, enters the turbulent solver.
C7_RegimeSelection ==
  (FrictionSelected /\ ValidDiameter) =>
     IF IsLaminar
     THEN /\ pc \notin {"colebrook", "loop", "loop_exit"}
          /\ ff.trace = {"laminar"}
          /\ ff.n = 0
          /\ ff.f = IF Gt(ff.reynolds_number, Zero)
                    THEN Div(Num(64, 0), ff.reynolds_number)
                    ELSE Zero
     ELSE /\ "laminar" \notin ff.trace
          /\ pc = "colebrook" \/ "colebrook" \in ff.trace

\* a positive Reynolds number just below the split returned 64/Re
C7_Witness ==
  /\ FrictionReturned
  /\ ValidDiameter
  /\ ff.reynolds_number = Num(2299, 0)
  /\ ff.f = Div(Num(64, 0), Num(2299, 0))
  /\ ff.regime = "Laminar"

InSmoothBand ==
  /\ ValidDiameter
  /\ ~IsLaminar
  /\ Lt(Div(ff.absolute_roughness, ff.diameter), Num(1, 0 - 5))

\* C8: in the turbulent smooth-pipe band (relative roughness < 1e-5) the
\* friction factor is the Blasius value 0.316 x Re^(-0.25), and neither the
\* Swamee-Jain seed nor a Colebrook step is evaluated.
C8_BlasiusNoIteration ==
  (FrictionSelected /\ InSmoothBand) =>
     /\ pc \notin {"loop", "loop_exit"}
     /\ "seed" \notin ff.trace
     /\ "iterate" \notin ff.trace
     /\ ff.n = 0
     /\ ff.hist = <<>>
     /\ pc # "colebrook" =>
          ff.f = Mul(Num(316, 0 - 3), Pow(ff.reynolds_number, Num(0 - 25, 0 - 2)))

\* a finite Reynolds number in the band returned a positive Blasius value
C8_Witness ==
  /\ FrictionReturned
  /\ InSmoothBand
  /\ IsFin(ff.reynolds_number)
  /\ "blasius" \in ff.trace
  /\ Gt(ff.f, Zero)

\* C9: with a diameter <= 0, calculate_friction_factor returns
\* (0, "Invalid diameter") for every Reynolds number and roughness, without
\* computing a relative roughness or entering a regime.
C9_InvalidDiameterShortCircuit ==
  (FrictionSelected /\ ~ValidDiameter) =>
     /\ pc \in {"ff_return", "done", "step4_store", "step5", "step6", "step7", "step8"}
     /\ ff.f = Zero
     /\ ff.regime = "Invalid diameter"
     /\ ff.trace = {}
     /\ ff.relative_roughness = None
     /\ (pc = "done" /\ entry = "calculate_friction_factor") =>
          ret = [kind |-> "value", val |-> <<Zero, "Invalid diameter">>]

\* a diameter of 0 with an infinite Reynolds number and an infinite roughness
C9_Witness ==
  /\ pc = "done"
  /\ entry = "calculate_friction_factor"
  /\ args.diameter = Zero
  /\ args.reynolds_number = PosInf
  /\ args.absolute_roughness = PosInf
  /\ ret = [kind |-> "value", val |-> <<Zero, "Invalid diameter">>]

\* the turbulent solver was seeded and the call of calculate_friction_factor
\* is over, with a value or with an exception
SolverOver ==
  /\ "seed" \in ff.trace
  /\ pc = "ff_return" \/ (pc = "done" /\ ret.kind = "exception")
ConvergedAt(i) == Converged(ff.hist[i + 1], ff.hist[i])
Steps == Len(ff.hist) - 1

\* C10: the turbulent solver ends after at most 5 iterations: at the first
\* iteration whose estimate differs from the one before by less than 1e-6,
\* and otherwise after the 5th, returning the last estimate computed; it
\* never signals a failure.
C10_SolverStopsWithinFive ==
  SolverOver =>
     /\ ff.n <= 5
     /\ pc = "ff_return"
     /\ Steps = ff.n
     /\ \A i \in 1..(Steps - 1) : ~ConvergedAt(i)
     /\ \/ Steps >= 1 /\ ConvergedAt(Steps)
        \/ ff.n = 5 /\ ff.f = ff.hist[Steps + 1]

\* the two values agree to three digits (the arithmetic carries six)
Close(a, b) == Le(Abs(Sub(a, b)), Mul(Num(1, 0 - 3), Abs(b)))

\* the solver left its loop through the convergence test and has returned
ConvergedAndReturned == ff.stop = "converged" /\ ff.f # None

\* C11: when the solver stops on its convergence test, putting the value f
\* it returns into the Colebrook-White equation once more gives a value that
\* differs from f by less than 1e-6.
C11_IdempotentAtConvergence ==
  ConvergedAndReturned =>
     Lt(Abs(Sub(ColebrookWhite(ff.reynolds_number, ff.relative_roughness, ff.f), ff.f)),
        Tolerance)

\* C12 as stated: the outlet pressure reported is max(0, inlet - total loss)
\* in bar and never negative; pressure_loss_percent is total loss / inlet x 100,
\* and 0 when the inlet pressure is 0.
ReportedInletPa == Mul(ret.val.outlet_pressure.inlet_pressure_bar, Num(1, 5))
ReportedTotalPa == ret.val.pressure_drop.total_pressure_drop_pa
UnclampedOutletBar == Div(Sub(ReportedInletPa, ReportedTotalPa), Num(1, 5))
C12_OutletClamped_AsStated ==
  ReportReturned =>
     /\ ret.val.outlet_pressure.outlet_pressure_bar = Max(Zero, UnclampedOutletBar)
     /\ ~Lt(ret.val.outlet_pressure.outlet_pressure_bar, Zero)
     /\ ret.val.outlet_pressure.pressure_loss_percent =
          IF ReportedInletPa = Zero THEN Zero
          ELSE Mul(Div(ReportedTotalPa, ReportedInletPa), Num(100, 0))

\* C12 amended: the outlet pressure reported is max(0, inlet - total loss) in
\* bar and never negative; pressure_loss_percent is total loss / inlet x 100,
\* from the unclamped total loss, when the inlet pressure is > 0, and 0 when
\* the inlet pressure is 0 or negative.
C12_OutletClamped ==
  ReportReturned =>
     /\ ret.val.outlet_pressure.outlet_pressure_bar = Max(Zero, UnclampedOutletBar)
     /\ ~Lt(ret.val.outlet_pressure.outlet_pressure_bar, Zero)
     /\ ret.val.outlet_pressure.pressure_loss_percent =
          IF Gt(ReportedInletPa, Zero)
          THEN Mul(Div(ReportedTotalPa, ReportedInletPa), Num(100, 0))
          ELSE Zero

\* a report whose total loss exceeds a positive inlet pressure: the outlet is
\* reported as 0 and the loss as more than 100 percent
C12_Witness ==
  /\ ReportReturned
  /\ Gt(ReportedInletPa, Zero)
  /\ Lt(UnclampedOutletBar, Zero)
  /\ ret.val.outlet_pressure.outlet_pressure_bar = Zero
  /\ Gt(ret.val.outlet_pressure.pressure_loss_percent, Num(100, 0))

\* the call before this one returned a report too
OtherReportReturned ==
  /\ other.pc = "done"
  /\ other.entry = "analyze_pipeline"
  /\ other.ret.kind = "value"

\* the two calls have the same arguments, the length left aside
OnlyLengthDiffers ==
  [args EXCEPT !.pipe_length_km = Zero] = [other.args EXCEPT !.pipe_length_km = Zero]

LengthIndependentSections ==
  {"pipe_dimensions", "flow_properties", "friction", "pressure_containment",
   "velocity_check"}

\* C13: two reports of analyze_pipeline for arguments that differ in
\* pipe_length_km only have the same pipe_dimensions, flow_properties,
\* friction, pressure_containment and velocity_check sections and the same
\* echoed input but for the length; only pressure_drop and outlet_pressure
\* may differ.
C13_OnlyPressureSectionsDependOnLength ==
  (ReportReturned /\ OtherReportReturned /\ OnlyLengthDiffers) =>
     /\ DOMAIN ret.val = DOMAIN other.ret.val
     /\ \A section \in LengthIndependentSections :
          ret.val[section] = other.ret.val[section]
     /\ [ret.val.input EXCEPT !.pipe_length_km = Zero]
          = [other.ret.val.input EXCEPT !.pipe_length_km = Zero]

\* the thin fluid, through the Colebrook solver, over two different lengths:
\* the pressure sections of the two reports differ
C13_Witness ==
  /\ ReportReturned
  /\ OtherReportReturned
  /\ OnlyLengthDiffers
  /\ args.pipe_length_km # other.args.pipe_length_km
  /\ ret.val.friction.calculation_method = other.ret.val.friction.calculation_method
  /\ ret.val.friction.calculation_method # "Laminar"
  /\ ret.val.pressure_drop # other.ret.val.pressure_drop
  /\ ret.val.outlet_pressure # other.ret.val.outlet_pressure

\* two calls of calculate_friction_pressure_drop, the earlier with the
\* shorter length, both with f > 0, diameter > 0 and density > 0
FrictionLossPair ==
  /\ pc = "done"
  /\ entry = "calculate_friction_pressure_drop"
  /\ ret.kind = "value"
  /\ other.pc = "done"
  /\ other.entry = "calculate_friction_pressure_drop"
  /\ other.ret.kind = "value"
  /\ [args EXCEPT !.length_m = Zero] = [other.args EXCEPT !.length_m = Zero]
  /\ Gt(args.friction_factor, Zero)
  /\ Gt(args.diameter_m, Zero)
  /\ Gt(args.density_kg_m3, Zero)
  /\ Lt(other.args.length_m, args.length_m)

\* two reports of analyze_pipeline, the earlier for the shorter line
LongerLinePair ==
  /\ ReportReturned
  /\ OtherReportReturned
  /\ OnlyLengthDiffers
  /\ Lt(other.args.pipe_length_km, args.pipe_length_km)

\* the line has friction: f > 0, internal diameter > 0, density > 0
LineHasFriction ==
  /\ Gt(ret.val.friction.friction_factor, Zero)
  /\ Gt(ret.val.pipe_dimensions.internal_diameter_m, Zero)
  /\ Gt(args.fluid_density_kg_m3, Zero)

\* C14 as the claim words it: the longer length gives a strictly larger
\* friction loss, and in analyze_pipeline a strictly larger total pressure
\* drop and a strictly lower outlet pressure.
C14_LongerLosesMore_AsStated ==
  /\ FrictionLossPair => Lt(other.ret.val, ret.val)
  /\ (LongerLinePair /\ LineHasFriction) =>
        /\ Lt(other.ret.val.pressure_drop.total_pressure_drop_pa,
              ret.val.pressure_drop.total_pressure_drop_pa)
        /\ Lt(ret.val.outlet_pressure.outlet_pressure_bar,
              other.ret.val.outlet_pressure.outlet_pressure_bar)

\* C14: the longer length never gives a smaller friction loss, and a strictly
\* larger one when the velocity is not 0; in analyze_pipeline the longer line
\* has a total pressure drop that is strictly larger when the fluid moves, and
\* an outlet pressure that is never higher, and strictly lower when the
\* outlet pressure of the shorter line is above the floor of 0.
C14_LongerLosesMore ==
  /\ FrictionLossPair =>
        /\ Le(other.ret.val, ret.val)
        /\ (args.velocity_ms # Zero) => Lt(other.ret.val, ret.val)
  /\ (LongerLinePair /\ LineHasFriction) =>
        /\ Le(other.ret.val.pressure_drop.total_pressure_drop_pa,
              ret.val.pressure_drop.total_pressure_drop_pa)
        /\ Le(ret.val.outlet_pressure.outlet_pressure_bar,
              other.ret.val.outlet_pressure.outlet_pressure_bar)
        /\ (ret.val.flow_properties.velocity_ms # Zero) =>
              /\ Lt(other.ret.val.pressure_drop.total_pressure_drop_pa,
                    ret.val.pressure_drop.total_pressure_drop_pa)
              /\ Gt(other.ret.val.outlet_pressure.outlet_pressure_bar, Zero) =>
                    Lt(ret.val.outlet_pressure.outlet_pressure_bar,
                       other.ret.val.outlet_pressure.outlet_pressure_bar)

\* the thin fluid over 30 km and then over 50 km: both outlet pressures are
\* above 0 and the second is the lower
C14_Witness ==
  /\ LongerLinePair
  /\ LineHasFriction
  /\ other.args.pipe_length_km = Num(30, 0)
  /\ args.pipe_length_km = Num(50, 0)
  /\ Gt(ret.val.outlet_pressure.outlet_pressure_bar, Zero)
  /\ Lt(ret.val.outlet_pressure.outlet_pressure_bar,
        other.ret.val.outlet_pressure.outlet_pressure_bar)
  /\ Lt(other.ret.val.pressure_drop.friction_loss_pa,
        ret.val.pressure_drop.friction_loss_pa)

\* both callers have what their invocation gave, a report or an exception
BothInvocationsOver == pc = "done" /\ other.pc = "done"

\* C15: however the steps of two invocations of analyze_pipeline interleave,
\* invocations with equal arguments give equal results, no step changes
\* PIPE_GRADES or another imported constant, and a result that a caller holds
\* is not changed by the steps of the other invocation.
C15_NoCrossCallState ==
  /\ []((BothInvocationsOver /\ args = other.args) => ret = other.ret)
  /\ [][module_globals' = module_globals]_vars
  /\ [][(other.pc = "done") =>
          (other' = other \/ (pc' = "done" /\ ret' = other.ret /\ results' = other.results))]_vars

\* two invocations with the arguments of the 30 km example have both
\* returned their report, and the table still has the SMYS of X52
C15_Witness ==
  /\ BothInvocationsOver
  /\ args = MainExample
  /\ other.args = MainExample
  /\ ret.kind = "value"
  /\ other.ret = ret
  /\ ret.val.pressure_containment.allowable_stress_mpa
       = Mul(DesignFactor, module_globals.PIPE_GRADES["X52"].SMYS)

\* the solver iterated on the rough-pipe path
RoughPathIterated == "iterate" \in ff.trace /\ Len(ff.hist) >= 2

\* C16: on the rough-pipe turbulent path the seed is the Swamee-Jain value and
\* every estimate is the Colebrook-White form of the estimate before it, with
\* the roughness term and the Reynolds term added inside one logarithm.
C16_IteratesColebrookWhite ==
  RoughPathIterated =>
     /\ ff.hist[1] = SwameeJain(ff.reynolds_number, ff.relative_roughness)
     /\ \A i \in 1..(Len(ff.hist) - 1) :
          Close(ff.hist[i + 1],
                ColebrookWhite(ff.reynolds_number, ff.relative_roughness, ff.hist[i]))

\* the loop was left through the zero-denominator guard
GuardStopped == ff.stop = "zero_denominator"
ReturnedFrictionFactor == IF entry = SolverEntry THEN ret.val ELSE ret.val[1]

\* C17: an iteration that finds Re x sqrt(f_n) equal to 0 leaves the loop with
\* f_n untouched and raises nothing, and the solver then returns that f_n.
C17_ZeroDenominatorStops ==
  /\ [][(/\ pc = "loop"
         /\ ff.n < MaxIterations
         /\ Term2Denom(ff.reynolds_number, ff.f_guess) = Zero)
        => (/\ pc' = "loop_exit"
            /\ ff'.f_guess = ff.f_guess
            /\ ff'.stop = "zero_denominator"
            /\ ret' = ret)]_vars
  /\ []((GuardStopped /\ pc = "ff_return") => ff.f = ff.hist[Len(ff.hist)])
  /\ []((GuardStopped /\ pc = "done" /\ entry \in {SolverEntry, "calculate_friction_factor"})
          => (ret.kind = "value" /\ ReturnedFrictionFactor = ff.hist[Len(ff.hist)]))

\* the solver called with Re = 1e-320: the first estimate is 0, the second
\* iteration finds the denominator 0 and the solver returns that 0
C17_Witness ==
  /\ pc = "done"
  /\ entry = SolverEntry
  /\ args.reynolds_number = Num(1, 0 - 320)
  /\ GuardStopped
  /\ ff.n = 2
  /\ ret = [kind |-> "value", val |-> Zero]

\* C18: with wall_thickness_mm <= 0 the hoop stress of the report is
\* +infinity, safe is False and safety_margin_percent is 0, whatever the grade
\* of the table and the operating pressure.
C18_NoWallNeverPasses ==
  (ReportReturned /\ Le(args.wall_thickness_mm, Zero)) =>
     /\ ret.val.pressure_containment.hoop_stress_mpa = PosInf
     /\ ret.val.pressure_containment.safe = FALSE
     /\ ret.val.pressure_containment.safety_margin_percent = Zero

\* a report for a pipe without wall, of the strongest grade, at no pressure
C18_Witness ==
  /\ ReportReturned
  /\ args.wall_thickness_mm = Zero
  /\ args.pipe_grade = "X65"
  /\ args.operating_pressure_bar = Zero
  /\ ret.val.pressure_containment.safe = FALSE

====
